---- MODULE Spec2Model ----
(***************************************************************************)
(* Room-based signaling relay of webrtc-video-call (server/src/index.ts).  *)
(*                                                                         *)
(* The server runs on the Node.js event loop: every "connection",          *)
(* "message" and "close" callback runs to completion (joinRoom, leaveRoom  *)
(* and broadcastToRoom are synchronous, there is no await), so each        *)
(* callback is one action.                                                 *)
(***************************************************************************)
EXTENDS Integers, Sequences, FiniteSets, TLC

\* ------------------------------------------------------------------ bounds
\* Number of connections the model accepts (each gets a fresh Client object).
MaxConns == 3

\* Number of RTCPeerConnection objects one page constructs.
MaxPcs == 2

\* Number of promises of one WebRTCManager that are pending at a time.
MaxPending == 2

\* --------------------------------------------------------------- constants
MAX_ROOM_SIZE == 2

\* The JavaScript value undefined (a missing field); differs from every string
\* the inputs below use.
Undef == "<undefined>"

Conns == 1..MaxConns

\* "No client" argument of broadcastToRoom (excludeClient omitted).
NoClient == 0

\* Values of payload.roomId a join-room frame can carry: an empty string or a
\* non-empty one (a missing roomId is as falsy as the empty one).
RoomIds == {"", "r1", "r2"}

\* The display names connection c puts in payload.username: the room page
\* sends the name it was opened with, which may be missing; the first
\* connection also changes its name between requests.
NamesOf(c) ==
  CASE c = 1 -> {"ann", "amy"}
    [] c = 2 -> {"bob"}
    [] c = 3 -> {Undef}
    [] OTHER -> {"dan"}

\* Values of payload.username a join-room frame can carry.
Usernames == UNION {NamesOf(c) : c \in Conns}

\* Types of the frames that are not join-room (Undef: JSON without a type).
RelayTypes == {"chat", "leave-room", Undef}

\* Opaque payload contents of relayed frames.
Data == {"d1"}

\* Payload of a frame that has no payload field.
NoPayload == [none |-> TRUE]

\* Client.roomId / Client.username used as a condition: if (client.roomId).
Truthy(v) == v \notin {Undef, ""}

\* ------------------------------------------------------------------ frames
\* A frame as received: text that is not JSON, the JSON value null, or a JSON
\* object with an optional type and an optional payload.
JoinFrames ==
  {[kind |-> "object", type |-> "join-room",
    payload |-> [roomId |-> r, username |-> u]] : r \in RoomIds, u \in Usernames}

JoinNoPayloadFrame ==
  [kind |-> "object", type |-> "join-room", payload |-> NoPayload]

RelayFrames ==
  {[kind |-> "object", type |-> t, payload |-> [data |-> d]] :
     t \in RelayTypes, d \in Data}

BadFrames ==
  {[kind |-> "text", type |-> Undef, payload |-> NoPayload],
   [kind |-> "null", type |-> Undef, payload |-> NoPayload]}

Frames == JoinFrames \cup {JoinNoPayloadFrame} \cup RelayFrames \cup BadFrames

\* The frames connection c can send.
FramesOf(c) ==
  {f \in Frames : f \in JoinFrames => f.payload.username \in NamesOf(c)}

NoFrame == [kind |-> "none", type |-> Undef, payload |-> NoPayload]

\* ------------------------------------------------------------------- state
VARIABLES
  ws,         \* ws[c]: readyState of connection c ("NONE" before it is accepted)
  clients,    \* keys of the clients map
  roomIdOf,   \* Client.roomId of the Client object of connection c
  usernameOf, \* Client.username
  rooms,      \* the rooms map: room id -> members, in Set insertion order
  sent,       \* frames written by the handler that ran last: [to, type, payload]
  last        \* the event handled last: [op, c, frame, from], from being
              \* Client.roomId of c when the handler started

vars == <<ws, clients, roomIdOf, usernameOf, rooms, sent, last>>

\* The room page (src/room.ts) of each connection, as far as the server's
\* frames drive it.
VARIABLES
  href,                  \* href[c]: "none" before the page of connection c is
                         \* loaded, "loaded" before its join-room is sent,
                         \* "room" after, "leaving" once leaveRoom() has run
                         \* and its leave-room frame is on its way, "/" then
  startCallBtnDisabled,  \* startCallBtn.disabled of the page of connection c
  sendMessageBtnDisabled \* sendMessageBtn.disabled

roomVars == <<href, startCallBtnDisabled, sendMessageBtnDisabled>>

\* One room page with its WebRTCManager (src/lib/webrtc.ts).
VARIABLES
  startCallBtnHidden,    \* startCallBtn.hidden
  endCallBtnHidden,      \* endCallBtn.hidden
  location,              \* window.location.href: "room" or "/"
  pc,                    \* this.pc: 0 for null, else the serial number of the
                         \* RTCPeerConnection object
  made,                  \* RTCPeerConnection objects constructed so far
  localStream,           \* this.localStream is not null
  remoteStreamConnected, \* this.remoteStreamConnected
  localVideoSrc,         \* localVideo.srcObject is not null
  remoteVideoSrc,        \* remoteVideo.srcObject is not null
  pending,               \* the async methods suspended at an await, oldest
                         \* first: [fn, at]
  signalled,             \* frames the last step passed to signaling.send
  notified,              \* texts the last step passed to onMessage
  did                    \* the step taken last

rtcVars == <<pc, made, localStream, remoteStreamConnected, localVideoSrc,
             remoteVideoSrc, pending, signalled, notified>>

pageVars == <<startCallBtnHidden, endCallBtnHidden, location, rtcVars, did>>

allVars == <<vars, roomVars, pageVars>>

\* ----------------------------------------------------------------- helpers
Range(s) == {s[i] : i \in 1..Len(s)}

\* Set.add on an insertion-ordered Set.
SetAdd(s, c) == IF c \in Range(s) THEN s ELSE Append(s, c)

\* Set.delete on an insertion-ordered Set.
SetDelete(s, c) == SelectSeq(s, LAMBDA m : m # c)

\* Map.set(k, v)
MapSet(m, k, v) == [x \in DOMAIN m \cup {k} |-> IF x = k THEN v ELSE m[x]]

\* Map.delete(k)
MapDelete(m, k) == [x \in DOMAIN m \ {k} |-> m[x]]

Msg(to, type, payload) == [to |-> to, type |-> type, payload |-> payload]

\* Recipients with a fault: readyState is not looked at.
RecipientsNoReadyCheck(ready, members, excludeClient) ==
  SelectSeq(members, LAMBDA m : m # excludeClient)

\* Recipients with a fault: the excluded client is not skipped.
RecipientsNoExclude(ready, members, excludeClient) ==
  SelectSeq(members, LAMBDA m : ready[m] = "OPEN")

\* The members of a room a broadcast writes to, in iteration order.
Recipients(ready, members, excludeClient) ==
  SelectSeq(members, LAMBDA m : m # excludeClient /\ ready[m] = "OPEN")

\* broadcastToRoom with a fault: the frame goes to the members of every room.
BroadcastToRoomEveryRoom(ready, rms, out, roomId, type, payload, excludeClient) ==
  LET to == SelectSeq([i \in 1..MaxConns |-> i],
                      LAMBDA m : /\ m # excludeClient
                                 /\ ready[m] = "OPEN"
                                 /\ \E r \in DOMAIN rms : m \in Range(rms[r]))
  IN out \o [i \in 1..Len(to) |-> Msg(to[i], type, payload)]

\* broadcastToRoom(roomId, msg, excludeClient): the frames it appends to out.
\* ready[c] is the readyState of c's socket while the handler runs.
BroadcastToRoom(ready, rms, out, roomId, type, payload, excludeClient) ==
  IF roomId \notin DOMAIN rms THEN out
  ELSE LET to == Recipients(ready, rms[roomId], excludeClient)
       IN out \o [i \in 1..Len(to) |-> Msg(to[i], type, payload)]

\* RemoveEmpty with a fault: the empty room is left in the map.
RemoveEmptyNever(rms, roomId) == rms

\* "Remove empty rooms" of leaveRoom.
RemoveEmpty(rms, roomId) ==
  IF Len(rms[roomId]) = 0 THEN MapDelete(rms, roomId) ELSE rms

\* leaveRoom with a fault: client.roomId and client.username are not cleared.
LeaveRoomKeepsFields(S, c) ==
  IF ~Truthy(S.roomId[c]) THEN S
  ELSE
    LET rid == S.roomId[c]
    IN IF rid \notin DOMAIN S.rooms THEN S
       ELSE
         LET out1 == IF Truthy(S.username[c])
                     THEN BroadcastToRoom(S.ready, S.rooms, S.sent, rid, "user-left",
                                          [username |-> S.username[c]], c)
                     ELSE S.sent
             rms1 == [S.rooms EXCEPT ![rid] = SetDelete(@, c)]
             out2 == BroadcastToRoom(S.ready, rms1, out1, rid, "room-user-count",
                                     [count |-> Len(rms1[rid])], NoClient)
         IN [S EXCEPT !.rooms = RemoveEmpty(rms1, rid), !.sent = out2]

\* leaveRoom with a fault: the count is broadcast before the client is deleted.
LeaveRoomCountsEarly(S, c) ==
  IF ~Truthy(S.roomId[c]) THEN S
  ELSE
    LET rid == S.roomId[c]
        S1 ==
          IF rid \notin DOMAIN S.rooms THEN S
          ELSE
            LET out1 == IF Truthy(S.username[c])
                        THEN BroadcastToRoom(S.ready, S.rooms, S.sent, rid, "user-left",
                                             [username |-> S.username[c]], c)
                        ELSE S.sent
                rms1 == [S.rooms EXCEPT ![rid] = SetDelete(@, c)]
                out2 == BroadcastToRoom(S.ready, S.rooms, out1, rid, "room-user-count",
                                        [count |-> Len(rms1[rid])], NoClient)
            IN [S EXCEPT !.rooms = RemoveEmpty(rms1, rid), !.sent = out2]
    IN [S1 EXCEPT !.roomId[c] = Undef, !.username[c] = Undef]

\* leaveRoom(client) on the state S = [ready, rooms, roomId, username, sent].
LeaveRoom(S, c) ==
  IF ~Truthy(S.roomId[c]) THEN S
  ELSE
    LET rid == S.roomId[c]
        S1 ==
          IF rid \notin DOMAIN S.rooms THEN S
          ELSE
            LET out1 == IF Truthy(S.username[c])
                        THEN BroadcastToRoom(S.ready, S.rooms, S.sent, rid, "user-left",
                                             [username |-> S.username[c]], c)
                        ELSE S.sent
                rms1 == [S.rooms EXCEPT ![rid] = SetDelete(@, c)]
                out2 == BroadcastToRoom(S.ready, rms1, out1, rid, "room-user-count",
                                        [count |-> Len(rms1[rid])], NoClient)
            IN [S EXCEPT !.rooms = RemoveEmpty(rms1, rid), !.sent = out2]
    IN [S1 EXCEPT !.roomId[c] = Undef, !.username[c] = Undef]

\* RoomIsFull with a fault: > in place of >=.
RoomIsFullOffByOne(rms, roomId) ==
  roomId \in DOMAIN rms /\ Len(rms[roomId]) > MAX_ROOM_SIZE

\* "Check if room is full" of joinRoom.
RoomIsFull(rms, roomId) ==
  roomId \in DOMAIN rms /\ Len(rms[roomId]) >= MAX_ROOM_SIZE

\* "Leave current room if any" of joinRoom.
LeaveCurrent(S, c) == IF Truthy(S.roomId[c]) THEN LeaveRoom(S, c) ELSE S

\* joinRoom with a fault: the count is read before the client is added.
JoinRoomStaleCount(S, c, roomId, username) ==
  LET S1 == LeaveCurrent(S, c)
  IN IF RoomIsFull(S1.rooms, roomId)
     THEN [S1 EXCEPT !.sent =
             Append(@, Msg(c, "room-full",
                           [roomId |-> roomId, maxSize |-> MAX_ROOM_SIZE]))]
     ELSE
       LET rms2 == IF roomId \in DOMAIN S1.rooms THEN S1.rooms
                   ELSE MapSet(S1.rooms, roomId, <<>>)
           rms3 == [rms2 EXCEPT ![roomId] = SetAdd(@, c)]
           out1 == Append(S1.sent, Msg(c, "room-joined", [roomId |-> roomId]))
           out2 == BroadcastToRoom(S1.ready, rms3, out1, roomId, "user-joined",
                                   [username |-> username], c)
           out3 == BroadcastToRoom(S1.ready, rms3, out2, roomId, "room-user-count",
                                   [count |-> Len(rms2[roomId])], NoClient)
       IN [ready |-> S1.ready,
           rooms |-> rms3,
           roomId |-> [S1.roomId EXCEPT ![c] = roomId],
           username |-> [S1.username EXCEPT ![c] = username],
           sent |-> out3]

\* joinRoom with a fault: a full room is refused without an answer.
JoinRoomSilentFull(S, c, roomId, username) ==
  LET S1 == LeaveCurrent(S, c)
  IN IF RoomIsFull(S1.rooms, roomId)
     THEN S1
     ELSE
       LET rms2 == IF roomId \in DOMAIN S1.rooms THEN S1.rooms
                   ELSE MapSet(S1.rooms, roomId, <<>>)
           rms3 == [rms2 EXCEPT ![roomId] = SetAdd(@, c)]
           out1 == Append(S1.sent, Msg(c, "room-joined", [roomId |-> roomId]))
           out2 == BroadcastToRoom(S1.ready, rms3, out1, roomId, "user-joined",
                                   [username |-> username], c)
           out3 == BroadcastToRoom(S1.ready, rms3, out2, roomId, "room-user-count",
                                   [count |-> Len(rms3[roomId])], NoClient)
       IN [ready |-> S1.ready,
           rooms |-> rms3,
           roomId |-> [S1.roomId EXCEPT ![c] = roomId],
           username |-> [S1.username EXCEPT ![c] = username],
           sent |-> out3]

\* joinRoom with a fault: room-joined is written after the broadcasts.
JoinRoomAckLast(S, c, roomId, username) ==
  LET S1 == LeaveCurrent(S, c)
  IN IF RoomIsFull(S1.rooms, roomId)
     THEN [S1 EXCEPT !.sent =
             Append(@, Msg(c, "room-full",
                           [roomId |-> roomId, maxSize |-> MAX_ROOM_SIZE]))]
     ELSE
       LET rms2 == IF roomId \in DOMAIN S1.rooms THEN S1.rooms
                   ELSE MapSet(S1.rooms, roomId, <<>>)
           rms3 == [rms2 EXCEPT ![roomId] = SetAdd(@, c)]
           out2 == BroadcastToRoom(S1.ready, rms3, S1.sent, roomId, "user-joined",
                                   [username |-> username], c)
           out3 == BroadcastToRoom(S1.ready, rms3, out2, roomId, "room-user-count",
                                   [count |-> Len(rms3[roomId])], NoClient)
       IN [ready |-> S1.ready,
           rooms |-> rms3,
           roomId |-> [S1.roomId EXCEPT ![c] = roomId],
           username |-> [S1.username EXCEPT ![c] = username],
           sent |-> Append(out3, Msg(c, "room-joined", [roomId |-> roomId]))]

\* joinRoom with a fault: user-joined carries client.username as it was
\* before the request, and the new name is not stored.
JoinRoomStaleName(S, c, roomId, username) ==
  LET S1 == LeaveCurrent(S, c)
  IN IF RoomIsFull(S1.rooms, roomId)
     THEN [S1 EXCEPT !.sent =
             Append(@, Msg(c, "room-full",
                           [roomId |-> roomId, maxSize |-> MAX_ROOM_SIZE]))]
     ELSE
       LET rms2 == IF roomId \in DOMAIN S1.rooms THEN S1.rooms
                   ELSE MapSet(S1.rooms, roomId, <<>>)
           rms3 == [rms2 EXCEPT ![roomId] = SetAdd(@, c)]
           out1 == Append(S1.sent, Msg(c, "room-joined", [roomId |-> roomId]))
           out2 == BroadcastToRoom(S1.ready, rms3, out1, roomId, "user-joined",
                                   [username |-> S.username[c]], c)
           out3 == BroadcastToRoom(S1.ready, rms3, out2, roomId, "room-user-count",
                                   [count |-> Len(rms3[roomId])], NoClient)
       IN [ready |-> S1.ready,
           rooms |-> rms3,
           roomId |-> [S1.roomId EXCEPT ![c] = roomId],
           username |-> [S1.username EXCEPT ![c] = S.username[c]],
           sent |-> out3]

\* joinRoom(client, roomId, username)
JoinRoom(S, c, roomId, username) ==
  LET S1 == LeaveCurrent(S, c)
  IN IF RoomIsFull(S1.rooms, roomId)
     THEN [S1 EXCEPT !.sent =
             Append(@, Msg(c, "room-full",
                           [roomId |-> roomId, maxSize |-> MAX_ROOM_SIZE]))]
     ELSE
       LET rms2 == IF roomId \in DOMAIN S1.rooms THEN S1.rooms
                   ELSE MapSet(S1.rooms, roomId, <<>>)
           rms3 == [rms2 EXCEPT ![roomId] = SetAdd(@, c)]
           out1 == Append(S1.sent, Msg(c, "room-joined", [roomId |-> roomId]))
           out2 == BroadcastToRoom(S1.ready, rms3, out1, roomId, "user-joined",
                                   [username |-> username], c)
           out3 == BroadcastToRoom(S1.ready, rms3, out2, roomId, "room-user-count",
                                   [count |-> Len(rms3[roomId])], NoClient)
       IN [ready |-> S1.ready,
           rooms |-> rms3,
           roomId |-> [S1.roomId EXCEPT ![c] = roomId],
           username |-> [S1.username EXCEPT ![c] = username],
           sent |-> out3]

\* OnMessage with a fault: a frame that is not join-room is forwarded to every
\* other open connection, whatever its room (the relay without rooms).
OnMessageToAll(S, c, f) ==
  IF f.kind # "object" THEN S
  ELSE IF f.type = "join-room"
       THEN IF f.payload = NoPayload THEN S
            ELSE JoinRoom(S, c, f.payload.roomId, f.payload.username)
       ELSE LET to == SelectSeq([i \in 1..MaxConns |-> i],
                                LAMBDA m : m # c /\ S.ready[m] = "OPEN")
            IN [S EXCEPT !.sent =
                  @ \o [i \in 1..Len(to) |-> Msg(to[i], f.type, f.payload)]]

\* OnMessage with a fault: a leave-room frame runs leaveRoom for its sender.
OnMessageLeaveRoom(S, c, f) ==
  IF f.kind # "object" THEN S
  ELSE IF f.type = "join-room"
       THEN IF f.payload = NoPayload THEN S
            ELSE JoinRoom(S, c, f.payload.roomId, f.payload.username)
       ELSE IF f.type = "leave-room"
            THEN LeaveRoom(S, c)
            ELSE IF Truthy(S.roomId[c])
                 THEN [S EXCEPT !.sent =
                         BroadcastToRoom(S.ready, S.rooms, @, S.roomId[c], f.type, f.payload, c)]
                 ELSE S

\* The try block of the "message" callback; a throw (JSON.parse of text that
\* is not JSON, msg.type of null, msg.payload.roomId without a payload) is
\* caught and leaves the state as it was.
OnMessage(S, c, f) ==
  IF f.kind # "object" THEN S
  ELSE IF f.type = "join-room"
       THEN IF f.payload = NoPayload THEN S
            ELSE JoinRoom(S, c, f.payload.roomId, f.payload.username)
       ELSE IF Truthy(S.roomId[c])
            THEN [S EXCEPT !.sent =
                    BroadcastToRoom(S.ready, S.rooms, @, S.roomId[c], f.type, f.payload, c)]
            ELSE S

\* The state a handler starts from, with the sockets' readyState while it
\* runs; sent starts empty for each handler.
Cur(ready) == [ready |-> ready, rooms |-> rooms, roomId |-> roomIdOf,
               username |-> usernameOf, sent |-> <<>>]

Apply(S) ==
  /\ rooms' = S.rooms
  /\ roomIdOf' = S.roomId
  /\ usernameOf' = S.username
  /\ sent' = S.sent

\* -------------------------------------------------- WebRTCManager (page)
\* The fields of a WebRTCManager and of its video elements, with what the
\* step that runs has passed to signaling.send and to onMessage so far.
Manager == [pc |-> pc, made |-> made, localStream |-> localStream,
            remoteStreamConnected |-> remoteStreamConnected,
            localVideoSrc |-> localVideoSrc, remoteVideoSrc |-> remoteVideoSrc,
            pending |-> pending, signalled |-> << >>, notified |-> << >>]

NewManager == [pc |-> 0, made |-> 0, localStream |-> FALSE,
               remoteStreamConnected |-> FALSE,
               localVideoSrc |-> FALSE, remoteVideoSrc |-> FALSE,
               pending |-> << >>, signalled |-> << >>, notified |-> << >>]

ApplyManager(M) ==
  /\ pc' = M.pc
  /\ made' = M.made
  /\ localStream' = M.localStream
  /\ remoteStreamConnected' = M.remoteStreamConnected
  /\ localVideoSrc' = M.localVideoSrc
  /\ remoteVideoSrc' = M.remoteVideoSrc
  /\ pending' = M.pending
  /\ signalled' = M.signalled
  /\ notified' = M.notified

\* this.onMessage(text)
Notify(M, text) == [M EXCEPT !.notified = Append(@, text)]

\* this.signaling.send(type, ...)
Signal(M, type) == [M EXCEPT !.signalled = Append(@, type)]

\* An async method suspends at an await.
Await(M, fn, at) == [M EXCEPT !.pending = Append(@, [fn |-> fn, at |-> at])]

\* createPeerConnection(): this.pc = new RTCPeerConnection(...)
CreatePeerConnection(M) == [M EXCEPT !.made = @ + 1, !.pc = M.made + 1]

\* if (!this.pc) { this.createPeerConnection(); }
EnsurePeerConnection(M) == IF M.pc = 0 THEN CreatePeerConnection(M) ELSE M

\* createOffer() up to its first await.
CreateOffer(M) ==
  LET M1 == EnsurePeerConnection(M)
  IN IF M1.pc = 0 THEN M1 ELSE Await(M1, "createOffer", "createOffer")

\* handleOffer(offer) up to its first await.
HandleOffer(M) ==
  LET M1 == EnsurePeerConnection(M)
  IN IF M1.pc = 0 THEN M1 ELSE Await(M1, "handleOffer", "setRemoteDescription")

\* handleAnswer with a fault: a peer connection is made when there is none.
HandleAnswerCreates(M) ==
  Await(EnsurePeerConnection(M), "handleAnswer", "setRemoteDescription")

\* handleAnswer(answer) up to its await.
HandleAnswer(M) ==
  IF M.pc = 0 THEN M ELSE Await(M, "handleAnswer", "setRemoteDescription")

\* handleIceCandidate(candidate) up to its await.
HandleIceCandidate(M) ==
  IF M.pc = 0 THEN M ELSE Await(M, "handleIceCandidate", "addIceCandidate")

\* startLocalVideo() up to its await.
StartLocalVideo(M) == Await(M, "startLocalVideo", "getUserMedia")

\* The text of the catch block of an async method ("" where it only logs).
FailureText(fn) ==
  CASE fn = "createOffer" -> "Failed to create call offer"
    [] fn = "handleOffer" -> "Failed to handle call offer"
    [] fn = "handleAnswer" -> "Failed to handle call answer"
    [] fn = "startLocalVideo" -> "Failed to access camera/microphone"
    [] OTHER -> ""

\* The catch block of async method fn.
Catch(M, fn) == IF FailureText(fn) = "" THEN M ELSE Notify(M, FailureText(fn))

\* The next call on this.pc of a resumed method: evaluating this.pc.f(...)
\* throws a TypeError, which the catch block takes, when this.pc is null.
ThenOnPc(M, fn, at) == IF M.pc = 0 THEN Catch(M, fn) ELSE Await(M, fn, at)

\* The method suspended as k resumes, its promise fulfilled (ok) or rejected,
\* and runs to its next await or to its end.
Continue(M, k, ok) ==
  IF ~ok THEN Catch(M, k.fn)
  ELSE CASE k.fn = "createOffer" /\ k.at = "createOffer" ->
              ThenOnPc(M, "createOffer", "setLocalDescription")
         [] k.fn = "createOffer" /\ k.at = "setLocalDescription" ->
              Notify(Signal(M, "offer"), "Call offer sent")
         [] k.fn = "handleOffer" /\ k.at = "setRemoteDescription" ->
              ThenOnPc(M, "handleOffer", "createAnswer")
         [] k.fn = "handleOffer" /\ k.at = "createAnswer" ->
              ThenOnPc(M, "handleOffer", "setLocalDescription")
         [] k.fn = "handleOffer" /\ k.at = "setLocalDescription" ->
              Notify(Signal(M, "answer"), "Call offer received, answer sent")
         [] k.fn = "handleAnswer" ->
              Notify(M, "Call answer received")
         [] k.fn = "startLocalVideo" ->
              Notify([M EXCEPT !.localStream = TRUE, !.localVideoSrc = TRUE],
                     "Camera and microphone access granted")
         [] OTHER -> M

\* Sequence s without its i-th element.
Without(s, i) == [j \in 1..(Len(s) - 1) |-> IF j < i THEN s[j] ELSE s[j + 1]]

\* The i-th suspended method resumes.
Resume(M, i, ok) ==
  Continue([M EXCEPT !.pending = Without(@, i)], M.pending[i], ok)

\* pc.ontrack
OnTrack(M) ==
  LET M1 == [M EXCEPT !.remoteVideoSrc = TRUE]
  IN IF ~M1.remoteStreamConnected
     THEN Notify([M1 EXCEPT !.remoteStreamConnected = TRUE],
                 "Remote video connected")
     ELSE M1

\* pc.onicecandidate
OnIceCandidate(M, candidate) ==
  IF candidate THEN Signal(M, "ice-candidate") ELSE M

\* endCall with a fault: remoteStreamConnected is not reset.
EndCallKeepsFlag(M) ==
  Notify([M EXCEPT !.pc = 0, !.remoteVideoSrc = FALSE], "Call ended")

\* endCall()
EndCall(M) ==
  Notify([M EXCEPT !.pc = 0, !.remoteVideoSrc = FALSE,
                   !.remoteStreamConnected = FALSE],
         "Call ended")

\* cleanup with a fault: the local stream is not released.
CleanupKeepsLocalStream(M) ==
  [M EXCEPT !.pc = 0, !.remoteVideoSrc = FALSE, !.remoteStreamConnected = FALSE]

\* cleanup()
Cleanup(M) ==
  [M EXCEPT !.pc = 0, !.localStream = FALSE, !.localVideoSrc = FALSE,
            !.remoteVideoSrc = FALSE, !.remoteStreamConnected = FALSE]

\* The values of pc.connectionState the handler is run with.
ConnectionStates == {"connecting", "connected", "disconnected", "failed"}

\* pc.onconnectionstatechange
OnConnectionStateChange(M, state) ==
  IF state = "connected"
  THEN LET M1 == Notify(M, "WebRTC connection established")
       IN IF M1.localStream THEN Signal(M1, "camera-state") ELSE M1
  ELSE IF state \in {"disconnected", "failed"}
       THEN Cleanup(Notify(M, "WebRTC connection lost"))
       ELSE M

\* ------------------------------------------------------ room page (room.ts)
\* The types of the frames a page's message handler acts on with the manager
\* or the call buttons.
CallFrameTypes ==
  {"room-joined", "room-full", "offer", "answer", "ice-candidate",
   "call-started", "call-ended", "chat"}

\* disabled of startCallBtn and sendMessageBtn after room-user-count.
DisabledAfterCountAtLeastOne(count) == ~(count >= 1)

DisabledAfterCount(count) == ~(count > 1)

\* initializeCallButtons(): startCallBtn.disabled = true.
StartCallBtnInitiallyDisabled == TRUE

\* The disabled attribute of #sendMessage in room.html.
SendMessageBtnInitiallyDisabled == TRUE

\* An async method may start only while fewer than MaxPending are suspended,
\* and a connection be constructed only while fewer than MaxPcs were.
CanAwait == Len(pending) < MaxPending

CanMake == pc # 0 \/ made < MaxPcs

\* startCallBtn.onclick with a fault: endCallBtn stays hidden.
StartCallClickLeavesEndHidden ==
  /\ location = "room"
  /\ CanAwait /\ CanMake
  /\ ApplyManager(Signal(CreateOffer(Manager), "call-started"))
  /\ startCallBtnHidden' = TRUE
  /\ endCallBtnHidden' = endCallBtnHidden
  /\ did' = "startCall"
  /\ UNCHANGED location

\* startCallBtn.onclick
StartCallClick ==
  /\ location = "room"
  /\ CanAwait /\ CanMake
  /\ ApplyManager(Signal(CreateOffer(Manager), "call-started"))
  /\ startCallBtnHidden' = TRUE
  /\ endCallBtnHidden' = FALSE
  /\ did' = "startCall"
  /\ UNCHANGED location

\* endCallBtn.onclick
EndCallClick ==
  /\ location = "room"
  /\ ApplyManager(Signal(EndCall(Manager), "call-ended"))
  /\ startCallBtnHidden' = FALSE
  /\ endCallBtnHidden' = TRUE
  /\ did' = "endCall"
  /\ UNCHANGED location

\* leaveRoom() of the page: leaveRoomBtn.onclick, the "close" event of the
\* signaling socket, and the room-full frame.
PageLeaveRoom(why) ==
  /\ ApplyManager(Signal(Cleanup(Manager), "leave-room"))
  /\ location' = "/"
  /\ did' = why
  /\ UNCHANGED <<startCallBtnHidden, endCallBtnHidden>>

LeaveRoomClick == location = "room" /\ PageLeaveRoom("leaveRoom")

SignalingClose == location = "room" /\ PageLeaveRoom("close")

\* signaling.on("message") for a frame of type t.
PageMessage(t) ==
  /\ location = "room"
  /\ CASE t = "room-joined" ->
            /\ CanAwait
            /\ ApplyManager(StartLocalVideo(Manager))
            /\ did' = t
            /\ UNCHANGED <<startCallBtnHidden, endCallBtnHidden, location>>
       [] t = "room-full" -> PageLeaveRoom(t)
       [] t = "offer" ->
            /\ CanAwait /\ CanMake
            /\ ApplyManager(HandleOffer(Manager))
            /\ did' = t
            /\ UNCHANGED <<startCallBtnHidden, endCallBtnHidden, location>>
       [] t = "answer" ->
            /\ CanAwait
            /\ ApplyManager(HandleAnswer(Manager))
            /\ did' = t
            /\ UNCHANGED <<startCallBtnHidden, endCallBtnHidden, location>>
       [] t = "ice-candidate" ->
            /\ CanAwait
            /\ ApplyManager(HandleIceCandidate(Manager))
            /\ did' = t
            /\ UNCHANGED <<startCallBtnHidden, endCallBtnHidden, location>>
       [] t = "call-started" ->
            /\ ApplyManager(Manager)
            /\ startCallBtnHidden' = TRUE
            /\ endCallBtnHidden' = FALSE
            /\ did' = t
            /\ UNCHANGED location
       [] t = "call-ended" ->
            /\ ApplyManager(EndCall(Manager))
            /\ startCallBtnHidden' = FALSE
            /\ endCallBtnHidden' = TRUE
            /\ did' = t
            /\ UNCHANGED location
       [] OTHER ->
            /\ ApplyManager(Manager)
            /\ did' = t
            /\ UNCHANGED <<startCallBtnHidden, endCallBtnHidden, location>>

\* A pending promise settles and its method goes on.
PromiseSettles(i, ok) ==
  /\ location = "room"
  /\ i \in 1..Len(pending)
  /\ ApplyManager(Resume(Manager, i, ok))
  /\ did' = "resume"
  /\ UNCHANGED <<startCallBtnHidden, endCallBtnHidden, location>>

\* The open peer connection fires a track event.
TrackEvent ==
  /\ location = "room"
  /\ pc # 0
  /\ ApplyManager(OnTrack(Manager))
  /\ did' = "ontrack"
  /\ UNCHANGED <<startCallBtnHidden, endCallBtnHidden, location>>

\* The open peer connection fires an icecandidate event.
IceCandidateEvent(candidate) ==
  /\ location = "room"
  /\ pc # 0
  /\ ApplyManager(OnIceCandidate(Manager, candidate))
  /\ did' = "onicecandidate"
  /\ UNCHANGED <<startCallBtnHidden, endCallBtnHidden, location>>

\* The open peer connection fires a connectionstatechange event.
ConnectionStateEvent(state) ==
  /\ location = "room"
  /\ pc # 0
  /\ ApplyManager(OnConnectionStateChange(Manager, state))
  /\ did' = "onconnectionstatechange"
  /\ UNCHANGED <<startCallBtnHidden, endCallBtnHidden, location>>

\* window "beforeunload": webrtc?.cleanup(), also after leaveRoom() has run.
CleanupCall ==
  /\ ApplyManager(Cleanup(Manager))
  /\ did' = "cleanup"
  /\ UNCHANGED <<startCallBtnHidden, endCallBtnHidden, location>>

NextPage ==
  \/ StartCallClick /\ UNCHANGED <<vars, roomVars>>
  \/ EndCallClick /\ UNCHANGED <<vars, roomVars>>
  \/ LeaveRoomClick /\ UNCHANGED <<vars, roomVars>>
  \/ SignalingClose /\ UNCHANGED <<vars, roomVars>>
  \/ \E t \in CallFrameTypes : PageMessage(t) /\ UNCHANGED <<vars, roomVars>>
  \/ \E i \in 1..MaxPending, ok \in BOOLEAN :
       PromiseSettles(i, ok) /\ UNCHANGED <<vars, roomVars>>
  \/ TrackEvent /\ UNCHANGED <<vars, roomVars>>
  \/ \E candidate \in BOOLEAN :
       IceCandidateEvent(candidate) /\ UNCHANGED <<vars, roomVars>>
  \/ \E state \in ConnectionStates :
       ConnectionStateEvent(state) /\ UNCHANGED <<vars, roomVars>>
  \/ CleanupCall /\ UNCHANGED <<vars, roomVars>>

\* ----------------------------------------------------------------- actions
Init ==
  /\ ws = [c \in Conns |-> "NONE"]
  /\ clients = {}
  /\ roomIdOf = [c \in Conns |-> Undef]
  /\ usernameOf = [c \in Conns |-> Undef]
  /\ rooms = << >>
  /\ sent = << >>
  /\ last = [op |-> "init", c |-> NoClient, frame |-> NoFrame, from |-> Undef]
  \* no page is loaded
  /\ href = [c \in Conns |-> "none"]
  /\ startCallBtnDisabled = [c \in Conns |-> StartCallBtnInitiallyDisabled]
  /\ sendMessageBtnDisabled = [c \in Conns |-> SendMessageBtnInitiallyDisabled]
  \* the page of SpecPage after initializeCallButtons and new WebRTCManager
  /\ startCallBtnHidden = FALSE
  /\ endCallBtnHidden = TRUE
  /\ location = "room"
  /\ pc = NewManager.pc
  /\ made = NewManager.made
  /\ localStream = NewManager.localStream
  /\ remoteStreamConnected = NewManager.remoteStreamConnected
  /\ localVideoSrc = NewManager.localVideoSrc
  /\ remoteVideoSrc = NewManager.remoteVideoSrc
  /\ pending = NewManager.pending
  /\ signalled = NewManager.signalled
  /\ notified = NewManager.notified
  /\ did = "load"

\* Connect with a fault: the new client is greeted with a count.
ConnectAnnounced(c) ==
  /\ ws[c] = "NONE"
  /\ \A d \in Conns : d < c => ws[d] # "NONE"
  /\ ws' = [ws EXCEPT ![c] = "OPEN"]
  /\ clients' = clients \cup {c}
  /\ sent' = << Msg(c, "room-user-count", [count |-> 0]) >>
  /\ last' = [op |-> "connect", c |-> c, frame |-> NoFrame, from |-> Undef]
  /\ UNCHANGED <<roomIdOf, usernameOf, rooms>>

\* wss.on("connection"): connections are accepted in the order of their ids.
Connect(c) ==
  /\ ws[c] = "NONE"
  /\ \A d \in Conns : d < c => ws[d] # "NONE"
  /\ ws' = [ws EXCEPT ![c] = "OPEN"]
  /\ clients' = clients \cup {c}
  /\ sent' = << >>
  /\ last' = [op |-> "connect", c |-> c, frame |-> NoFrame, from |-> Undef]
  /\ UNCHANGED <<roomIdOf, usernameOf, rooms>>

\* ws.on("message")
Message(c, f) ==
  /\ ws[c] = "OPEN"
  /\ Apply(OnMessage(Cur(ws), c, f))
  /\ last' = [op |-> "message", c |-> c, frame |-> f, from |-> roomIdOf[c]]
  /\ UNCHANGED <<ws, clients>>

\* The transport starts closing a connection: readyState leaves OPEN before
\* the "close" callback runs.
BeginClose(c) ==
  /\ ws[c] = "OPEN"
  /\ ws' = [ws EXCEPT ![c] = "CLOSING"]
  /\ sent' = << >>
  /\ last' = [op |-> "closing", c |-> c, frame |-> NoFrame, from |-> roomIdOf[c]]
  /\ UNCHANGED <<clients, roomIdOf, usernameOf, rooms>>

\* ws.on("close"): the ws is CLOSED when the callback runs.
Close(c) ==
  /\ ws[c] \in {"OPEN", "CLOSING"}
  /\ ws' = [ws EXCEPT ![c] = "CLOSED"]
  /\ clients' = clients \ {c}
  /\ Apply(LeaveRoom(Cur([ws EXCEPT ![c] = "CLOSED"]), c))
  /\ last' = [op |-> "close", c |-> c, frame |-> NoFrame, from |-> roomIdOf[c]]

\* The server with clients that send any frame, no page attached.
Next ==
  \/ \E c \in Conns : Connect(c) /\ UNCHANGED <<roomVars, pageVars>>
  \/ \E c \in Conns : \E f \in FramesOf(c) :
       Message(c, f) /\ UNCHANGED <<roomVars, pageVars>>
  \/ \E c \in Conns : BeginClose(c) /\ UNCHANGED <<roomVars, pageVars>>
  \/ \E c \in Conns : Close(c) /\ UNCHANGED <<roomVars, pageVars>>

Spec == Init /\ [][Next]_allVars

\* One room page with its WebRTCManager, the server left out.
SpecPage == Init /\ [][NextPage]_allVars

\* ------------------------------------------- room pages with the server
\* The display names a room page is opened with (room.ts refuses an empty or
\* missing one) and the room ids (it refuses an empty or missing one).
PageUsernames == {u \in Usernames : Truthy(u)}

PageRoomIds == {r \in RoomIds : Truthy(r)}

\* signaling.send("join-room", {username, roomId})
PageJoinFrame(r, u) ==
  [kind |-> "object", type |-> "join-room",
   payload |-> [roomId |-> r, username |-> u]]

\* signaling.send("chat", ...) and signaling.send("leave-room", ...)
PageFrame(t) == [kind |-> "object", type |-> t, payload |-> [data |-> "d1"]]

\* signaling.on("message") of a page P = [href, start, send] for a frame m of
\* the server, as far as it moves the page or its two buttons.
PageOnFrame(P, m) ==
  IF P.href \notin {"loaded", "room"} THEN P
  ELSE IF m.type = "room-user-count"
       THEN [P EXCEPT !.start = DisabledAfterCount(m.payload.count),
                      !.send = DisabledAfterCount(m.payload.count)]
       ELSE IF m.type = "room-full"
            THEN [P EXCEPT !.href = "leaving"]
            ELSE P

\* The page after the frames of out, in the order they were written.
RECURSIVE PageAfter(_, _)
PageAfter(P, out) ==
  IF out = << >> THEN P
  ELSE PageAfter(PageOnFrame(P, Head(out)), Tail(out))

\* Every page handles the frames the server's handler wrote to it; h is href
\* as the acting page has set it.
Deliver(h) ==
  LET after(c) == PageAfter([href |-> h[c], start |-> startCallBtnDisabled[c],
                             send |-> sendMessageBtnDisabled[c]],
                            SelectSeq(sent', LAMBDA m : m.to = c))
  IN /\ href' = [c \in Conns |-> after(c).href]
     /\ startCallBtnDisabled' = [c \in Conns |-> after(c).start]
     /\ sendMessageBtnDisabled' = [c \in Conns |-> after(c).send]

\* The page is loaded (initializeCallButtons) and its socket is accepted.
PageConnect(c) ==
  /\ Connect(c)
  /\ href' = [href EXCEPT ![c] = "loaded"]
  /\ startCallBtnDisabled' =
       [startCallBtnDisabled EXCEPT ![c] = StartCallBtnInitiallyDisabled]
  /\ UNCHANGED sendMessageBtnDisabled

\* signaling.on("open"): the page asks for its room.
PageJoin(c, r, u) ==
  /\ href[c] = "loaded"
  /\ Message(c, PageJoinFrame(r, u))
  /\ Deliver([href EXCEPT ![c] = "room"])

\* sendMessage()
PageChat(c) ==
  /\ href[c] = "room"
  /\ Message(c, PageFrame("chat"))
  /\ Deliver(href)

\* leaveRoom() of the page (leaveRoomBtn, or room-full before): its
\* leave-room frame reaches the server and the page is gone.
PageLeave(c) ==
  /\ href[c] \in {"loaded", "room", "leaving"}
  /\ Message(c, PageFrame("leave-room"))
  /\ Deliver([href EXCEPT ![c] = "/"])

PageBeginClose(c) == BeginClose(c) /\ UNCHANGED roomVars

\* The socket closes: the server's "close" callback, and the page's, which
\* runs leaveRoom().
PageClose(c) ==
  /\ Close(c)
  /\ Deliver([href EXCEPT ![c] = "/"])

NextRoom ==
  \/ \E c \in Conns : PageConnect(c) /\ UNCHANGED pageVars
  \/ \E c \in Conns : \E r \in PageRoomIds : \E u \in PageUsernames :
       PageJoin(c, r, u) /\ UNCHANGED pageVars
  \/ \E c \in Conns : PageChat(c) /\ UNCHANGED pageVars
  \/ \E c \in Conns : PageLeave(c) /\ UNCHANGED pageVars
  \/ \E c \in Conns : PageBeginClose(c) /\ UNCHANGED pageVars
  \/ \E c \in Conns : PageClose(c) /\ UNCHANGED pageVars

\* The server with a room page on every connection.
SpecRoom == Init /\ [][NextRoom]_allVars

\* ------------------------------------------------------------ observations
\* The member set of room r (empty when r is not in the directory).
MembersIn(rms, r) == IF r \in DOMAIN rms THEN Range(rms[r]) ELSE {}

Members(r) == MembersIn(rooms, r)

\* The rooms whose member set holds c.
RoomsOf(c) == {r \in DOMAIN rooms : c \in Range(rooms[r])}

\* The frames the last handler wrote to client c, in order.
SentTo(c) == SelectSeq(sent, LAMBDA m : m.to = c)

\* The last handler wrote frame [type, payload] to client c.
GotIn(out, c, type, payload) ==
  \E i \in 1..Len(out) : out[i] = Msg(c, type, payload)

Got(c, type, payload) == GotIn(sent, c, type, payload)

\* The last event was a join-room request (with a payload) of client c.
JoinRequest(c) ==
  /\ last.op = "message"
  /\ last.c = c
  /\ last.frame \in JoinFrames

\* The last event was a frame of c that is parsed and is not join-room.
RelayRequest(c) ==
  /\ last.op = "message"
  /\ last.c = c
  /\ last.frame \in RelayFrames

\* ------------------------------------------------------------------ claims

\* C1: every room present in the directory has at least 1 and at most
\* MAX_ROOM_SIZE members after every handler; a room with no member is absent.
C1_RoomSizeBounds ==
  \A r \in DOMAIN rooms :
    /\ Cardinality(Range(rooms[r])) = Len(rooms[r])
    /\ 1 <= Len(rooms[r])
    /\ Len(rooms[r]) <= MAX_ROOM_SIZE

\* C1 witness: a close removed the last member of a room, which is gone from the
\* directory, while another room is at capacity.
C1_Witness ==
  /\ last.op = "close"
  /\ Truthy(last.from)
  /\ last.from \notin DOMAIN rooms
  /\ \E r \in DOMAIN rooms : Len(rooms[r]) = MAX_ROOM_SIZE

\* C2: no handler adds a member to a room that has MAX_ROOM_SIZE members, and no
\* handler leaves a room with more than MAX_ROOM_SIZE members: however the
\* join-room requests of three clients for one room interleave, two are admitted.
C2_NoThirdMember ==
  [][\A r \in RoomIds :
       /\ Cardinality(Members(r)') <= MAX_ROOM_SIZE
       /\ Cardinality(Members(r)) = MAX_ROOM_SIZE => Members(r)' \subseteq Members(r)
    ]_vars

\* C2 witness: a third client has just asked for a room that holds two others
\* and was answered room-full.
C2_Witness ==
  \E c \in Conns :
    /\ JoinRequest(c)
    /\ Cardinality(Members(last.frame.payload.roomId)) = MAX_ROOM_SIZE
    /\ c \notin Members(last.frame.payload.roomId)
    /\ Got(c, "room-full", [roomId |-> last.frame.payload.roomId,
                            maxSize |-> MAX_ROOM_SIZE])

\* C3 (as claimed): a join-room request for a room that has 2 members leaves the
\* room's member set as it was, is answered room-full (room id, maxSize 2) to
\* the requester, and makes the handler write to nobody else.
C3_FullRoomRejectsQuietly ==
  [][\A c \in Conns :
       (/\ JoinRequest(c)'
        /\ Cardinality(Members(last'.frame.payload.roomId)) = MAX_ROOM_SIZE)
       => /\ MembersIn(rooms', last'.frame.payload.roomId)
               = Members(last'.frame.payload.roomId)
          /\ GotIn(sent', c, "room-full", [roomId |-> last'.frame.payload.roomId,
                                          maxSize |-> MAX_ROOM_SIZE])
          /\ \A i \in 1..Len(sent') : sent'[i].to = c
    ]_vars

\* C4 (as claimed): a join-room request answered room-full changes neither the
\* directory nor any client's current room or username.
C4_RoomFullMutatesNothing ==
  [][\A c \in Conns :
       (/\ JoinRequest(c)'
        /\ \E i \in 1..Len(sent') : sent'[i].to = c /\ sent'[i].type = "room-full")
       => /\ rooms' = rooms
          /\ roomIdOf' = roomIdOf
          /\ usernameOf' = usernameOf
    ]_vars

\* C5 (as claimed): every client is in the member set of at most one room.
C5_AtMostOneRoom ==
  \A c \in Conns : Cardinality(RoomsOf(c)) <= 1

\* C6 (as claimed): after a successful join of room r, and after a leave of
\* room r (a leave-room frame, a successful join of another room, or a close,
\* of a client that is a member of r), every member r then has whose
\* connection is open is sent room-user-count with r's size at that moment.
C6_CountReachesMembers ==
  [][\A c \in Conns, r \in RoomIds :
       LET joined == /\ JoinRequest(c)'
                     /\ last'.frame.payload.roomId = r
                     /\ GotIn(sent', c, "room-joined", [roomId |-> r])
           explicit == /\ RelayRequest(c)'
                       /\ last'.frame.type = "leave-room"
                       /\ c \in Members(r)
           switched == /\ JoinRequest(c)'
                       /\ last'.frame.payload.roomId # r
                       /\ GotIn(sent', c, "room-joined",
                                [roomId |-> last'.frame.payload.roomId])
                       /\ c \in Members(r)
           closed == /\ last'.op = "close"
                     /\ last'.c = c
                     /\ c \in Members(r)
       IN (joined \/ explicit \/ switched \/ closed)
          => \A m \in MembersIn(rooms', r) :
               ws'[m] = "OPEN"
               => GotIn(sent', m, "room-user-count",
                        [count |-> Cardinality(MembersIn(rooms', r))])
    ]_vars

\* The frames of out that are user-left or room-user-count.
LeaveNotices(out) ==
  SelectSeq(out, LAMBDA m : m.type \in {"user-left", "room-user-count"})

\* C7 (as claimed): a leave-room frame of a client c that is in a room has the
\* effects of the close of c on the same state: the same directory, the same
\* current room of c, the same user-left and room-user-count frames.
C7_LeaveFrameEqualsClose ==
  [][\A c \in Conns :
       (/\ RelayRequest(c)'
        /\ last'.frame.type = "leave-room"
        /\ RoomsOf(c) # {})
       => LET closed == LeaveRoom(Cur([ws EXCEPT ![c] = "CLOSED"]), c)
          IN /\ rooms' = closed.rooms
             /\ roomIdOf'[c] = closed.roomId[c]
             /\ LeaveNotices(sent') = LeaveNotices(closed.sent)
    ]_vars

\* C8 (as claimed): a frame that is not join-room, sent by a member c of room
\* r, reaches every other member of r whose connection is open with its type
\* and payload, and reaches nobody outside r.
C8_RelayToRoomOnly ==
  \A c \in Conns, r \in RoomIds :
    (RelayRequest(c) /\ c \in Members(r))
    => /\ \A m \in Members(r) \ {c} :
            ws[m] = "OPEN" => Got(m, last.frame.type, last.frame.payload)
       /\ \A i \in 1..Len(sent) : sent[i].to \in Members(r)

\* C9: the handler of a frame of client c that is not join-room writes nothing
\* to c.
C9_NoEcho ==
  \A c \in Conns :
    (last.op = "message" /\ last.c = c /\ last.frame.type # "join-room")
    => SentTo(c) = << >>

\* C9 witness: a member of a room sent a chat frame and its peer was sent it.
C9_Witness ==
  \E c, m \in Conns :
    /\ RelayRequest(c)
    /\ last.frame.type = "chat"
    /\ m # c
    /\ {c, m} \subseteq Members(roomIdOf[c])
    /\ Got(m, "chat", last.frame.payload)

\* C10: a frame that is not join-room, from a client that is a member of no room,
\* is dropped: the handler writes nothing and changes neither the directory nor
\* the registry nor any client's fields.
C10_IdleFrameDropped ==
  [][\A c \in Conns :
       (/\ last'.op = "message"
        /\ last'.c = c
        /\ last'.frame.type # "join-room"
        /\ RoomsOf(c) = {})
       => /\ sent' = << >>
          /\ rooms' = rooms
          /\ clients' = clients
          /\ roomIdOf' = roomIdOf
          /\ usernameOf' = usernameOf
          /\ ws' = ws
    ]_vars

\* C10 witness: a client in no room sent a chat frame while two other clients
\* share a room; nothing was written.
C10_Witness ==
  \E c \in Conns :
    /\ RelayRequest(c)
    /\ last.frame.type = "chat"
    /\ RoomsOf(c) = {}
    /\ \E r \in DOMAIN rooms : \E m \in Range(rooms[r]) : ws[m] = "OPEN"
    /\ sent = << >>

\* The last handler wrote a frame of this type to client c.
GotTypeIn(out, c, type) ==
  \E i \in 1..Len(out) : out[i].to = c /\ out[i].type = type

\* The number of frames of this type the handler wrote to client c.
CountIn(out, c, type) ==
  Len(SelectSeq(out, LAMBDA m : m.to = c /\ m.type = type))

\* The handler changed neither the directory, nor the registry, nor a client.
NothingChanged ==
  /\ rooms' = rooms
  /\ clients' = clients
  /\ roomIdOf' = roomIdOf
  /\ usernameOf' = usernameOf
  /\ ws' = ws

\* C11 (as claimed): a frame that is not JSON, or is JSON without a string
\* type, is dropped whether or not its sender is in a room: nothing is written
\* to anybody and nothing changes.
C11_MalformedFrameDropped ==
  [][(/\ last'.op = "message"
      /\ (last'.frame.kind # "object" \/ last'.frame.type = Undef))
     => (sent' = << >> /\ NothingChanged)
    ]_vars

\* C12 (as claimed): a join-room frame without a payload, or with a missing or
\* empty roomId, is discarded: nothing is written and nothing changes.
C12_JoinWithoutRoomIdDiscarded ==
  [][(/\ last'.op = "message"
      /\ last'.frame.kind = "object"
      /\ last'.frame.type = "join-room"
      /\ (last'.frame.payload = NoPayload \/ ~Truthy(last'.frame.payload.roomId)))
     => (sent' = << >> /\ NothingChanged)
    ]_vars

\* The last event was a join-room request of c for room r that was answered
\* room-joined.
Joined(c, r) ==
  /\ JoinRequest(c)
  /\ last.frame.payload.roomId = r
  /\ Got(c, "room-joined", [roomId |-> r])

\* C13 (as claimed): on a successful join of c to r with name u, every other
\* member of r is sent user-joined carrying u, c is not, and every member of r
\* is sent room-user-count with the new size.
C13_JoinNotifiesEveryMember ==
  \A c \in Conns, r \in RoomIds :
    Joined(c, r)
    => /\ \A m \in Members(r) \ {c} :
            Got(m, "user-joined", [username |-> last.frame.payload.username])
       /\ ~GotTypeIn(sent, c, "user-joined")
       /\ \A m \in Members(r) :
            Got(m, "room-user-count", [count |-> Cardinality(Members(r))])

\* C13 (amended): the same for the members of r whose connection is open.
C13_JoinNotifiesOpenMembers ==
  \A c \in Conns, r \in RoomIds :
    Joined(c, r)
    => /\ \A m \in Members(r) \ {c} :
            ws[m] = "OPEN"
            => Got(m, "user-joined", [username |-> last.frame.payload.username])
       /\ ~GotTypeIn(sent, c, "user-joined")
       /\ \A m \in Members(r) :
            ws[m] = "OPEN"
            => Got(m, "room-user-count", [count |-> Cardinality(Members(r))])

\* C13 witness: the second member of a room has just joined; both were sent
\* room-user-count 2 and the first was sent user-joined.
C13_Witness ==
  \E c, m \in Conns :
    /\ m # c
    /\ Joined(c, "r1")
    /\ Members("r1") = {c, m}
    /\ Got(m, "user-joined", [username |-> last.frame.payload.username])
    /\ Got(m, "room-user-count", [count |-> 2])
    /\ Got(c, "room-user-count", [count |-> 2])

\* C14: every join-room request that carries a payload is answered, by its own
\* handler, with exactly one frame to the requester that is room-joined or
\* room-full; room-joined carries the requested room id and the requester is
\* then a member of that room; room-full leaves that room's members as they were.
C14_ExactlyOneAnswer ==
  [][\A c \in Conns :
       JoinRequest(c)'
       => /\ CountIn(sent', c, "room-joined") + CountIn(sent', c, "room-full") = 1
          /\ GotTypeIn(sent', c, "room-joined")
             => /\ GotIn(sent', c, "room-joined",
                         [roomId |-> last'.frame.payload.roomId])
                /\ c \in MembersIn(rooms', last'.frame.payload.roomId)
          /\ GotTypeIn(sent', c, "room-full")
             => MembersIn(rooms', last'.frame.payload.roomId)
                  = Members(last'.frame.payload.roomId)
    ]_vars

\* C14 witness: an idle client asked for a room and its handler wrote one frame,
\* room-full, to it.
C14_Witness ==
  \E c \in Conns :
    /\ JoinRequest(c)
    /\ last.from = Undef
    /\ SentTo(c) = << Msg(c, "room-full", [roomId |-> last.frame.payload.roomId,
                                           maxSize |-> MAX_ROOM_SIZE]) >>

\* C15 (as claimed): every leave of a client c whose current room is r (at the
\* close of c, or at a join-room request of c) removes c from r, clears c's
\* current room unless the request puts c in a room again, writes user-left
\* with c's name and room-user-count with the new size to every remaining member
\* whose connection is open, and deletes r when it has no member left.
C15_LeaveEffects ==
  [][\A c \in Conns, r \in RoomIds :
       (/\ last'.c = c
        /\ last'.op = "close" \/ JoinRequest(c)'
        /\ roomIdOf[c] = r
        /\ Truthy(r)
        /\ c \in Members(r))
       => LET rest == Members(r) \ {c}
          IN /\ last'.op = "close" => (c \notin MembersIn(rooms', r) /\ roomIdOf'[c] = Undef)
             /\ ~GotTypeIn(sent', c, "room-joined")
                => (c \notin MembersIn(rooms', r) /\ roomIdOf'[c] = Undef)
             /\ \A m \in rest :
                  ws'[m] = "OPEN"
                  => /\ GotIn(sent', m, "user-left", [username |-> usernameOf[c]])
                     /\ GotIn(sent', m, "room-user-count",
                              [count |-> Cardinality(rest)])
             /\ rest = {} /\ ~GotIn(sent', c, "room-joined", [roomId |-> r])
                => r \notin DOMAIN rooms'
    ]_vars

\* C16: leaveRoom on a client without a current room changes nothing and writes
\* nothing; and in every state a closed client is in, running the close
\* callback's cleanup again (leaveRoom, then clients.delete) changes nothing and
\* writes nothing.
C16_CleanupIdempotent ==
  \A c \in Conns :
    /\ ~Truthy(roomIdOf[c]) => LeaveRoom(Cur(ws), c) = Cur(ws)
    /\ ws[c] = "CLOSED"
       => /\ LeaveRoom(Cur(ws), c) = Cur(ws)
          /\ clients \ {c} = clients

\* C16 witness: the close of a client has just removed it from a room that
\* another client stays in, and that client was notified.
C16_Witness ==
  /\ last.op = "close"
  /\ Truthy(last.from)
  /\ last.from \in DOMAIN rooms
  /\ sent # << >>
  /\ ws[last.c] = "CLOSED"

\* C17 (as claimed): at the close of a client c that is a member of room r,
\* every other member of r whose connection is open is sent exactly one
\* user-left and exactly one room-user-count.
C17_LeaveOncePerClose ==
  [][\A c \in Conns, r \in RoomIds :
       (/\ last'.op = "close"
        /\ last'.c = c
        /\ c \in Members(r))
       => \A m \in Members(r) \ {c} :
            ws'[m] = "OPEN"
            => /\ CountIn(sent', m, "user-left") = 1
               /\ CountIn(sent', m, "room-user-count") = 1
    ]_vars

\* C18 (as claimed): a client whose connection has closed is not in the
\* registry, is a member of no room and is written no frame.
C18_TerminatedIsAbsorbing ==
  \A c \in Conns :
    ws[c] = "CLOSED"
    => /\ c \notin clients
       /\ RoomsOf(c) = {}
       /\ SentTo(c) = << >>

\* C19: no handler writes to a connection that is not open; a relayed frame
\* still reaches every other member of the sender's room whose connection is
\* open, nothing is written back to the sender and the directory is unchanged;
\* the count of a join still reaches every member whose connection is open.
C19_BestEffortBroadcast ==
  [][/\ \A i \in 1..Len(sent') : ws'[sent'[i].to] = "OPEN"
     /\ \A c \in Conns :
          (RelayRequest(c)' /\ Truthy(roomIdOf[c]))
          => /\ \A m \in Members(roomIdOf[c]) \ {c} :
                  ws[m] = "OPEN"
                  => GotIn(sent', m, last'.frame.type, last'.frame.payload)
             /\ \A i \in 1..Len(sent') : sent'[i].to # c
             /\ rooms' = rooms
     /\ \A c \in Conns, r \in RoomIds :
          Joined(c, r)'
          => \A m \in MembersIn(rooms', r) :
               ws'[m] = "OPEN"
               => GotIn(sent', m, "room-user-count",
                        [count |-> Cardinality(MembersIn(rooms', r))])
    ]_vars

\* C19 witness: a client joined a room whose other member's connection is
\* closing: the joiner was sent the count 2, the other member nothing.
C19_Witness ==
  \E c, m \in Conns, r \in RoomIds :
    /\ Joined(c, r)
    /\ Members(r) = {c, m}
    /\ m # c
    /\ ws[m] = "CLOSING"
    /\ Got(c, "room-user-count", [count |-> 2])
    /\ SentTo(m) = << >>

\* C20 (as claimed): a room id is in the directory exactly when a connected
\* client is a member of the room, and a join-room request answered room-full
\* creates no room.
C20_RoomPresentIffLiveMember ==
  [][/\ \A r \in RoomIds :
          r \in DOMAIN rooms'
          <=> \E c \in clients' : c \in MembersIn(rooms', r)
     /\ \A c \in Conns :
          (JoinRequest(c)' /\ GotTypeIn(sent', c, "room-full"))
          => DOMAIN rooms' \subseteq DOMAIN rooms
    ]_vars

\* C21 (as claimed): client c is in the member set of room r exactly when c's
\* roomId is r, and c's roomId is empty exactly when c is in no member set.
C21_BackReferenceAgrees ==
  \A c \in Conns :
    /\ \A r \in RoomIds : c \in Members(r) <=> roomIdOf[c] = r
    /\ ~Truthy(roomIdOf[c]) <=> RoomsOf(c) = {}

\* The members that remain in the room client c was in when the last handler
\* started, c's roomId then being from.
Remaining(c, from) == Members(from) \ {c}

\* C22: user-left is written only to the members that remain in the room the
\* acting client leaves, user-joined only to the other members of the room it
\* joins, room-user-count only to the members of one of the two and with that
\* room's size; and the member set of a room the acting client is in neither
\* before nor after the handler does not change.
C22_NotificationsStayInRoom ==
  [][\A c \in Conns :
       last'.c = c
       => LET left == Remaining(c, last'.from)
              joined == IF JoinRequest(c)' /\ GotTypeIn(sent', c, "room-joined")
                        THEN MembersIn(rooms', last'.frame.payload.roomId)
                        ELSE {}
          IN /\ \A i \in 1..Len(sent') :
                  /\ sent'[i].type = "user-left" => sent'[i].to \in left
                  /\ sent'[i].type = "user-joined" => sent'[i].to \in joined \ {c}
                  /\ sent'[i].type = "room-user-count"
                     => \/ /\ sent'[i].to \in left
                           /\ sent'[i].payload.count = Cardinality(left)
                        \/ /\ sent'[i].to \in joined
                           /\ sent'[i].payload.count = Cardinality(joined)
             /\ \A r \in RoomIds :
                  (c \notin Members(r) /\ c \notin MembersIn(rooms', r))
                  => MembersIn(rooms', r) = Members(r)
    ]_vars

\* C22 witness: c moved from r1, where m1 stays, to r2, where m2 was: m1 was
\* sent user-left and the count 1 and no user-joined, m2 user-joined and the
\* count 2 and no user-left.
C22_Witness ==
  \E c, m1, m2 \in Conns :
    /\ Joined(c, "r2")
    /\ last.from = "r1"
    /\ Members("r1") = {m1}
    /\ Members("r2") = {c, m2}
    /\ m1 # c /\ m2 # c
    /\ GotTypeIn(sent, m1, "user-left")
    /\ Got(m1, "room-user-count", [count |-> 1])
    /\ ~GotTypeIn(sent, m1, "user-joined")
    /\ Got(m2, "user-joined", [username |-> last.frame.payload.username])
    /\ Got(m2, "room-user-count", [count |-> 2])
    /\ ~GotTypeIn(sent, m2, "user-left")

\* C23 (as claimed): a join-room request of a client for the room it is a
\* member of sends no user-left and leaves that room's member set as it was.
C23_RejoinSameRoomLeavesNothing ==
  [][\A c \in Conns, r \in RoomIds :
       (/\ JoinRequest(c)'
        /\ last'.frame.payload.roomId = r
        /\ c \in Members(r))
       => /\ \A i \in 1..Len(sent') : sent'[i].type # "user-left"
          /\ MembersIn(rooms', r) = Members(r)
    ]_vars

\* Frame i of out is written after a frame of the given type to the same client.
PrecededIn(out, i, type) ==
  \E j \in 1..(i - 1) : out[j].to = out[i].to /\ out[j].type = type

\* C24 (as claimed): when a member c of room r1 joins another room r2, every
\* member that remains in r1 and whose connection is open is sent user-left
\* and room-user-count with the reduced size, r1 is deleted if no member
\* remains, and these frames are written before any frame of the join.
C24_SwitchLeavesFirst ==
  [][\A c \in Conns, r1, r2 \in RoomIds :
       (/\ Joined(c, r2)'
        /\ r1 # r2
        /\ c \in Members(r1))
       => LET rest == Members(r1) \ {c}
          IN /\ MembersIn(rooms', r1) = rest
             /\ rest = {} => r1 \notin DOMAIN rooms'
             /\ \A m \in rest :
                  ws'[m] = "OPEN"
                  => /\ GotTypeIn(sent', m, "user-left")
                     /\ GotIn(sent', m, "room-user-count",
                              [count |-> Cardinality(rest)])
             /\ \A i, j \in 1..Len(sent') :
                  (/\ sent'[i].to \in rest
                   /\ sent'[j].to \in MembersIn(rooms', r2))
                  => i < j
    ]_vars

\* C25: the handler of a frame that is not a join-room request changes neither
\* the rooms map nor any client's roomId or username nor the registry; the
\* rooms map changes only in the handler of a join-room request or of a close.
C25_OnlyJoinAndCloseChangeMembership ==
  [][/\ (last'.op = "message" /\ last'.frame \notin JoinFrames)
        => /\ rooms' = rooms
           /\ roomIdOf' = roomIdOf
           /\ usernameOf' = usernameOf
           /\ clients' = clients
     /\ rooms' # rooms
        => \/ last'.op = "close"
           \/ \E c \in Conns : JoinRequest(c)'
    ]_vars

\* C25 witness: a member of a room sent a leave-room frame; it was relayed to
\* the other member and both are still members.
C25_Witness ==
  \E c, m \in Conns :
    /\ RelayRequest(c)
    /\ last.frame.type = "leave-room"
    /\ m # c
    /\ Members(roomIdOf[c]) = {c, m}
    /\ Got(m, "leave-room", last.frame.payload)
    /\ roomIdOf[m] = roomIdOf[c]

\* C26 (as claimed): every room-user-count a handler writes to a client other
\* than the one acting comes after the membership notice of the same join or
\* leave to that client: after a user-joined when it is the count of a join
\* (written after room-joined), after a user-left when it is the count of a
\* leave.
C26_NoticeBeforeCount ==
  [][\A i \in 1..Len(sent') :
       (sent'[i].type = "room-user-count" /\ sent'[i].to # last'.c)
       => IF \E k \in 1..(i - 1) : sent'[k].type = "room-joined"
          THEN PrecededIn(sent', i, "user-joined")
          ELSE PrecededIn(sent', i, "user-left")
    ]_vars

\* C27 (as claimed): a join-room request for room r is answered room-full only
\* if two connected clients are members of r when it arrives, and otherwise
\* the requester is admitted.
C27_RoomFullOnlyWhenTwoConnected ==
  [][\A c \in Conns, r \in RoomIds :
       (JoinRequest(c)' /\ last'.frame.payload.roomId = r)
       => /\ GotTypeIn(sent', c, "room-full")
             => \E a, b \in clients : a # b /\ {a, b} \subseteq Members(r)
          /\ ~GotTypeIn(sent', c, "room-full")
             => /\ GotIn(sent', c, "room-joined", [roomId |-> r])
                /\ c \in MembersIn(rooms', r)
    ]_vars

\* C28: the "connection" callback registers the client with no roomId and no
\* username, in no member set, writes nothing and changes no room; and a
\* client that has no roomId and is in no member set is written nothing, and
\* stays so, by every handler that is not its own.
C28_AcceptedClientIsIdle ==
  [][\A c \in Conns :
       /\ (last'.op = "connect" /\ last'.c = c)
          => /\ c \in clients'
             /\ ws'[c] = "OPEN"
             /\ roomIdOf'[c] = Undef
             /\ usernameOf'[c] = Undef
             /\ \A r \in RoomIds : c \notin MembersIn(rooms', r)
             /\ sent' = << >>
             /\ rooms' = rooms
       /\ (/\ last'.c # c
           /\ roomIdOf[c] = Undef
           /\ \A r \in RoomIds : c \notin Members(r))
          => /\ \A i \in 1..Len(sent') : sent'[i].to # c
             /\ roomIdOf'[c] = Undef
             /\ usernameOf'[c] = usernameOf[c]
             /\ \A r \in RoomIds : c \notin MembersIn(rooms', r)
    ]_vars

\* C28 witness: a connection was accepted while two other clients share a
\* room; nothing was written.
C28_Witness ==
  /\ last.op = "connect"
  /\ last.c \in clients
  /\ ws[last.c] = "OPEN"
  /\ roomIdOf[last.c] = Undef
  /\ RoomsOf(last.c) = {}
  /\ sent = << >>
  /\ \E r \in DOMAIN rooms : Len(rooms[r]) = MAX_ROOM_SIZE

\* C29 (as claimed): every member of every room is in the registry and its
\* connection has not closed.
C29_MembersAreConnected ==
  \A r \in DOMAIN rooms :
    \A m \in Range(rooms[r]) : m \in clients /\ ws[m] # "CLOSED"

\* C30 (as claimed): when every accepted connection has closed, the rooms map
\* and the registry are empty.
C30_NoLeakAfterAllClosed ==
  (/\ \A c \in Conns : ws[c] \in {"NONE", "CLOSED"}
   /\ \E c \in Conns : ws[c] = "CLOSED")
  => /\ DOMAIN rooms = {}
     /\ clients = {}

\* C31: on a successful join room-joined is written to the joiner before the
\* room-user-count the joiner is sent and before every user-joined.
C31_AckIsFirstOfJoin ==
  [][\A c \in Conns, r \in RoomIds :
       Joined(c, r)'
       => \E k \in 1..Len(sent') :
            /\ sent'[k] = Msg(c, "room-joined", [roomId |-> r])
            /\ \A i \in 1..Len(sent') :
                 (\/ sent'[i].type = "user-joined"
                  \/ (sent'[i].type = "room-user-count" /\ sent'[i].to = c))
                 => k < i
    ]_vars

\* C31 witness: a client joined a room that had a member: room-joined is the
\* first frame, user-joined and the counts follow.
C31_Witness ==
  \E c, m \in Conns :
    /\ m # c
    /\ Joined(c, "r1")
    /\ ~Truthy(last.from)
    /\ sent = << Msg(c, "room-joined", [roomId |-> "r1"]),
                 Msg(m, "user-joined", [username |-> last.frame.payload.username]),
                 Msg(m, "room-user-count", [count |-> 2]),
                 Msg(c, "room-user-count", [count |-> 2]) >>

\* C32: user-joined carries the username of the request that caused it, which
\* a successful join stores as the client's username; a user-left written in a
\* handler of client c carries the username c had stored; the stored username
\* changes in no handler but a join-room request or the close of c; and it is
\* cleared when c is taken out of a member set without joining a room.
C32_NamesFollowJoins ==
  [][\A c \in Conns :
       /\ \A r \in RoomIds :
            Joined(c, r)'
            => /\ usernameOf'[c] = last'.frame.payload.username
               /\ \A i \in 1..Len(sent') :
                    sent'[i].type = "user-joined"
                    => sent'[i].payload = [username |-> last'.frame.payload.username]
       /\ last'.c = c
          => \A i \in 1..Len(sent') :
               sent'[i].type = "user-left"
               => sent'[i].payload = [username |-> usernameOf[c]]
       /\ usernameOf'[c] # usernameOf[c]
          => /\ last'.c = c
             /\ last'.op = "close" \/ JoinRequest(c)'
       /\ (/\ \E r \in RoomIds : c \in Members(r) /\ c \notin MembersIn(rooms', r)
           /\ ~GotTypeIn(sent', c, "room-joined"))
          => usernameOf'[c] = Undef
    ]_vars

\* C32 witness: a client that joined as "amy" took the name "ann" in its next
\* join; the member of the room it left was sent user-left "amy", the member
\* of the room it joined user-joined "ann".
C32_Witness ==
  \E m1, m2 \in Conns :
    /\ Joined(1, "r2")
    /\ last.frame.payload.username = "ann"
    /\ usernameOf[1] = "ann"
    /\ Got(m1, "user-left", [username |-> "amy"])
    /\ Got(m2, "user-joined", [username |-> "ann"])

C35_OneCallButtonHidden ==
  startCallBtnHidden = ~endCallBtnHidden

\* C35 witness: call-ended arrived during a call the page had started:
\* startCallBtn is shown again and endCallBtn hidden.
C35_Witness ==
  /\ did = "call-ended"
  /\ made > 0
  /\ ~startCallBtnHidden
  /\ endCallBtnHidden

\* The steps that run endCall() or cleanup().
ResetSteps ==
  {"endCall", "call-ended", "cleanup", "leaveRoom", "close", "room-full"}

\* C36: an RTCPeerConnection is constructed only by createOffer (the start
\* call click) or handleOffer (an offer frame) and only when this.pc is null;
\* this.pc goes from null to a connection in no other step; handleAnswer and
\* handleIceCandidate with this.pc null change no field, suspend no method,
\* send no frame and notify nothing; endCall and cleanup leave this.pc null.
C36_PeerConnectionOnlyOnOffer ==
  [][/\ (made' # made \/ (pc' # pc /\ pc' # 0))
        => /\ did' \in {"startCall", "offer"}
           /\ pc = 0
           /\ made' = made + 1
           /\ pc' = made'
     /\ (did' \in {"answer", "ice-candidate"} /\ pc = 0)
        => /\ UNCHANGED <<pc, made, localStream, remoteStreamConnected,
                          localVideoSrc, remoteVideoSrc, pending>>
           /\ signalled' = << >>
           /\ notified' = << >>
     /\ did' \in ResetSteps => pc' = 0
    ]_allVars

\* C36 witness: an answer frame arrived after the call was ended, while a
\* method of the ended call is still suspended: no peer connection exists.
C36_Witness ==
  /\ did = "answer"
  /\ pc = 0
  /\ made > 0
  /\ pending # << >>
  /\ signalled = << >>

\* C37: remoteStreamConnected is true only while this.pc is not null; "Remote
\* video connected" is notified only by a track event that finds the flag
\* false and sets it, a track event that finds it true notifies nothing, and
\* the flag becomes false only where endCall or cleanup runs.
C37_RemoteConnectedOncePerCall ==
  [][/\ remoteStreamConnected' => pc' # 0
     /\ (\E i \in 1..Len(notified') : notified'[i] = "Remote video connected")
        => /\ did' = "ontrack"
           /\ ~remoteStreamConnected
           /\ remoteStreamConnected'
           /\ Len(notified') = 1
     /\ (did' = "ontrack" /\ remoteStreamConnected) => notified' = << >>
     /\ (remoteStreamConnected /\ ~remoteStreamConnected')
        => /\ did' \in ResetSteps \cup {"onconnectionstatechange"}
           /\ pc' = 0
    ]_allVars

\* C37 witness: on the second peer connection of the page a track event
\* arrived when the flag was already set: nothing was notified.
C37_Witness ==
  /\ did = "ontrack"
  /\ made = MaxPcs
  /\ remoteStreamConnected
  /\ notified = << >>

\* C38: after cleanup() this.pc and this.localStream are null and
\* remoteStreamConnected is false, nothing was sent, notified or suspended,
\* and cleanup() applied again to the result changes no field; applied to a
\* manager on which nothing was started it changes nothing.
C38_CleanupIdempotent ==
  [][/\ did' = "cleanup"
        => /\ pc' = 0
           /\ ~localStream'
           /\ ~remoteStreamConnected'
           /\ signalled' = << >>
           /\ notified' = << >>
           /\ pending' = pending
           /\ Cleanup(Manager)' = Manager'
     /\ (did' = "cleanup" /\ Manager = Cleanup(Manager)) => Manager' = Manager
     /\ Cleanup(NewManager) = NewManager
    ]_allVars

\* C38 witness: cleanup() ran on a page that has left its room, after a call
\* had been started: no connection, no local stream.
C38_Witness ==
  /\ did = "cleanup"
  /\ location = "/"
  /\ made > 0
  /\ pc = 0
  /\ ~localStream
  /\ ~remoteStreamConnected

====
